---- MODULE Spec2Model ----
(***************************************************************************)
(* Model of src/attn/attention.py: the scaled dot-product attention        *)
(* primitive (Attention.self_attention), single-head Attention.forward and *)
(* the three compositions MultiheadAttention, MultiQueryAttention and      *)
(* GroupedQueryAttention.                                                  *)
(*                                                                         *)
(* Numbers.  Inputs and parameters are small integers.  The softmax makes  *)
(* exp(s / sqrt(dim_K)) of integer raw scores s; with                      *)
(*     t = exp(1 / sqrt(dim_K))                                            *)
(* that is t^s, and t is transcendental, so a value of the computation is  *)
(* a quotient of two integer polynomials in t and two values are equal     *)
(* exactly when the cross products of their polynomials are equal.  A      *)
(* polynomial is the sequence of its coefficients (entry k+1 belongs to    *)
(* t^k, no trailing zero); a number is [n |-> poly, d |-> poly]; the       *)
(* number with d = <<>> is NaN.  Arithmetic is the exact arithmetic of the *)
(* reals extended by -inf and NaN; rounding and overflow of the floating   *)
(* point backend are not modelled.                                         *)
(*                                                                         *)
(* Tensors.  [shape |-> <<d1, ..., dr>>, data |-> [index tuples -> entry]] *)
(* with 1-based indices.  A raised exception is [error |-> .., at |-> ..]; *)
(* Python's None is [none |-> TRUE].                                       *)
(***************************************************************************)
EXTENDS Integers, Sequences, FiniteSets, TLC

\* ------------------------------------------------------------------ bounds

MaxBatch == 2      \* batch sizes 1..MaxBatch
MaxSeq   == 2      \* sequence lengths 1..MaxSeq
MaxUnits == 2      \* n_head, n_query, n_grouped, n_query_each_group in 1..MaxUnits
MaxSeed  == 1      \* parameter / input families 0..MaxSeed
WordSize == 2      \* word_size of the constructed components
EmbedDim == 2      \* embed_dim of the constructed components
MaxCalls == 2      \* calls made on the component

\* ------------------------------------------------- integer helper operators

Max2(a, b) == IF a >= b THEN a ELSE b
Min2(a, b) == IF a <= b THEN a ELSE b

RECURSIVE SumTo(_, _)
\* F[1] + ... + F[n] for a function F on 1..n of integers
SumTo(F, n) == IF n = 0 THEN 0 ELSE SumTo(F, n - 1) + F[n]

\* ------------------------------------------------------------- polynomials

RECURSIVE PNorm(_)
PNorm(p) ==
    IF p = <<>> THEN <<>>
    ELSE IF p[Len(p)] = 0 THEN PNorm(SubSeq(p, 1, Len(p) - 1))
    ELSE p

PCoef(p, k) == IF k <= Len(p) THEN p[k] ELSE 0

PAdd(p, q) == PNorm([k \in 1..Max2(Len(p), Len(q)) |-> PCoef(p, k) + PCoef(q, k)])

PMul(p, q) ==
    IF p = <<>> \/ q = <<>> THEN <<>>
    ELSE PNorm([k \in 1..(Len(p) + Len(q) - 1) |->
                  SumTo([i \in 1..Len(p) |->
                           IF k + 1 - i >= 1 /\ k + 1 - i <= Len(q)
                           THEN p[i] * q[k + 1 - i] ELSE 0], Len(p))])

\* t^e, e >= 0
Monomial(e) == [k \in 1..(e + 1) |-> IF k = e + 1 THEN 1 ELSE 0]

PNonNeg(p) == \A k \in 1..Len(p) : p[k] >= 0

\* ----------------------------------------------------------------- numbers

NaN == [n |-> <<>>, d |-> <<>>]
IsNaN(a) == a.d = <<>>
Num(k) == [n |-> PNorm(<<k>>), d |-> <<1>>]
Zero == Num(0)
One == Num(1)

\* the integer a number holds (entries of Q, K, V and the raw scores)
IntOf(a) == IF a.n = <<>> THEN 0 ELSE a.n[1]

\* IEEE: NaN absorbs, also against 0
NumAdd(a, b) ==
    IF IsNaN(a) \/ IsNaN(b) THEN NaN
    ELSE IF a.d = b.d THEN [n |-> PAdd(a.n, b.n), d |-> a.d]
    ELSE [n |-> PAdd(PMul(a.n, b.d), PMul(b.n, a.d)), d |-> PMul(a.d, b.d)]

NumMul(a, b) ==
    IF IsNaN(a) \/ IsNaN(b) THEN NaN
    ELSE IF a.n = <<>> \/ b.n = <<>> THEN [n |-> <<>>, d |-> <<1>>]
    ELSE [n |-> PMul(a.n, b.n), d |-> PMul(a.d, b.d)]

\* equality of the real values (NaN is equal to nothing, as in IEEE)
NumEq(a, b) ==
    /\ ~IsNaN(a)
    /\ ~IsNaN(b)
    /\ PMul(a.n, b.d) = PMul(b.n, a.d)

\* the same value and the same NaN-ness (what a bitwise comparison sees)
NumSame(a, b) == (IsNaN(a) /\ IsNaN(b)) \/ NumEq(a, b)

IsZero(a) == ~IsNaN(a) /\ a.n = <<>>

\* t > 0, so a quotient of polynomials with coefficients >= 0 is >= 0
IsNonNeg(a) == ~IsNaN(a) /\ PNonNeg(a.n) /\ PNonNeg(a.d)

RECURSIVE NumSumTo(_, _)
\* F[1] + ... + F[n], accumulated left to right
NumSumTo(F, n) == IF n = 0 THEN Zero ELSE NumAdd(NumSumTo(F, n - 1), F[n])

\* ----------------------------------------------------------------- tensors

None == [none |-> TRUE]
IsNone(v) == "none" \in DOMAIN v

\* an exception raised by the operation `at`
Error(at) == [error |-> "RuntimeError", at |-> at]
IsError(v) == "error" \in DOMAIN v
IsTensor(v) == "shape" \in DOMAIN v

RECURSIVE MaxDim(_)
MaxDim(shape) == IF shape = <<>> THEN 0 ELSE Max2(Head(shape), MaxDim(Tail(shape)))

\* the index tuples of a tensor of the given shape
Idx(shape) ==
    {i \in [1..Len(shape) -> 1..MaxDim(shape)] : \A k \in 1..Len(shape) : i[k] <= shape[k]}

Tensor(shape, data) == [shape |-> shape, data |-> data]

\* broadcasting (torch broadcasting semantics: shapes are aligned at the
\* trailing axis; two sizes are compatible when equal or when one is 1)
PadLeft(s, r) == [k \in 1..r |-> IF k <= r - Len(s) THEN 1 ELSE s[k - (r - Len(s))]]

BroadcastOK(s1, s2) ==
    LET r == Max2(Len(s1), Len(s2))
        p1 == PadLeft(s1, r)
        p2 == PadLeft(s2, r)
    IN  \A k \in 1..r : p1[k] = p2[k] \/ p1[k] = 1 \/ p2[k] = 1

BroadcastShape(s1, s2) ==
    LET r == Max2(Len(s1), Len(s2))
        p1 == PadLeft(s1, r)
        p2 == PadLeft(s2, r)
    IN  [k \in 1..r |-> IF p1[k] = 1 THEN p2[k] ELSE p1[k]]

\* the index at which a tensor of shape s is read for index i of the
\* broadcast result
BIndex(i, s) ==
    LET off == Len(i) - Len(s)
    IN  [k \in 1..Len(s) |-> IF s[k] = 1 THEN 1 ELSE i[k + off]]

\* torch.transpose(T, -1, -2)
Transpose(T) ==
    LET r == Len(T.shape)
        sw(i) == [k \in 1..r |-> IF k = r THEN i[r - 1]
                                  ELSE IF k = r - 1 THEN i[r] ELSE i[k]]
    IN  Tensor(sw(T.shape), [i \in Idx(sw(T.shape)) |-> T.data[sw(i)]])

\* torch.matmul of two tensors of rank >= 2: batched over the broadcast
\* leading axes, raising on an inner-size or batch mismatch
MatMul(A, B) ==
    LET ra == Len(A.shape)
        rb == Len(B.shape)
        ba == SubSeq(A.shape, 1, ra - 2)
        bb == SubSeq(B.shape, 1, rb - 2)
        m  == A.shape[ra]
    IN  IF m # B.shape[rb - 1] \/ ~BroadcastOK(ba, bb) THEN Error("matmul")
        ELSE LET sh == BroadcastShape(ba, bb) \o <<A.shape[ra - 1], B.shape[rb]>>
                 r  == Len(sh)
                 ia(i, c) == BIndex(SubSeq(i, 1, r - 2), ba) \o <<i[r - 1], c>>
                 ib(i, c) == BIndex(SubSeq(i, 1, r - 2), bb) \o <<c, i[r]>>
             IN  Tensor(sh, [i \in Idx(sh) |->
                    NumSumTo([c \in 1..m |-> NumMul(A.data[ia(i, c)], B.data[ib(i, c)])], m)])

\* nn.Linear: lin(x) = x . weight^T + bias over the last axis; weight is
\* (out_features, in_features); raises when the last axis of x is not
\* in_features wide
Linear(lin, x) ==
    LET r == Len(x.shape)
    IN  IF x.shape[r] # lin.in_features THEN Error("linear")
        ELSE LET sh == [x.shape EXCEPT ![r] = lin.out_features]
                 dot(i) == NumSumTo([c \in 1..lin.in_features |->
                              NumMul(x.data[[i EXCEPT ![r] = c]],
                                     Num(lin.weight[i[r]][c]))], lin.in_features)
             IN  Tensor(sh, [i \in Idx(sh) |->
                    IF lin.has_bias THEN NumAdd(dot(i), Num(lin.bias[i[r]]))
                    ELSE dot(i)])

\* torch.cat(Ts, dim) of a non-empty list: the tensors must agree in rank and
\* in every size but the one of axis dim (0-based)
CatOK(Ts, dim) ==
    /\ dim + 1 <= Len(Ts[1].shape)
    /\ \A u \in 1..Len(Ts) :
          /\ Len(Ts[u].shape) = Len(Ts[1].shape)
          /\ \A k \in 1..Len(Ts[1].shape) :
                k # dim + 1 => Ts[u].shape[k] = Ts[1].shape[k]

\* rows of axis dim that the first u tensors of the list contribute
CatOffset(Ts, dim, u) == SumTo([v \in 1..u |-> Ts[v].shape[dim + 1]], u)

Cat(Ts, dim) ==
    IF ~CatOK(Ts, dim) THEN Error("cat")
    ELSE LET ax == dim + 1
             sh == [Ts[1].shape EXCEPT ![ax] = CatOffset(Ts, dim, Len(Ts))]
             unit(j) == CHOOSE u \in 1..Len(Ts) :
                           CatOffset(Ts, dim, u - 1) < j /\ j <= CatOffset(Ts, dim, u)
         IN  Tensor(sh, [i \in Idx(sh) |->
                Ts[unit(i[ax])].data[
                    [i EXCEPT ![ax] = i[ax] - CatOffset(Ts, dim, unit(i[ax]) - 1)]]])

\* ------------------------------------------------ the attention primitive

\* A scaled score is [ninf, e, u]: the real number e / sqrt(u), or -inf.

\* (mutant of NegInf: a large negative finite fill value instead of -inf)
LargeNegative == [ninf |-> FALSE, e |-> -3, u |-> 1]

NegInf == [ninf |-> TRUE, e |-> 0, u |-> 1]

\* score / torch.sqrt(dim_K): the integer raw score e becomes e / sqrt(dim_K)
Scale(score, dim_K) ==
    Tensor(score.shape,
           [i \in Idx(score.shape) |->
              [ninf |-> FALSE, e |-> IntOf(score.data[i]), u |-> dim_K]])

\* (mutant of EqZero: the mask taken with the opposite polarity)
EqOne(mask) == mask

\* mask == 0: TRUE where the mask is False/zero
EqZero(mask) == Tensor(mask.shape, [i \in Idx(mask.shape) |-> ~mask.data[i]])

\* (mutant of MaskedFill: a mask of an incompatible shape is ignored)
MaskedFillUnchecked(score, m, fill) ==
    IF ~BroadcastOK(m.shape, score.shape) THEN score
    ELSE LET sh == BroadcastShape(m.shape, score.shape)
         IN  Tensor(sh, [i \in Idx(sh) |->
                IF m.data[BIndex(i, m.shape)] THEN fill
                ELSE score.data[BIndex(i, score.shape)]])

\* torch.masked_fill(score, m, fill), out of place: m and score are expanded
\* to their common broadcast shape (expand_outplace), which raises when the
\* two shapes are not broadcast-compatible
MaskedFill(score, m, fill) ==
    IF ~BroadcastOK(m.shape, score.shape) THEN Error("masked_fill")
    ELSE LET sh == BroadcastShape(m.shape, score.shape)
         IN  Tensor(sh, [i \in Idx(sh) |->
                IF m.data[BIndex(i, m.shape)] THEN fill
                ELSE score.data[BIndex(i, score.shape)]])

\* torch.softmax(score, dim=-1): exp(s_k) / sum_j exp(s_j) along the last
\* axis.  exp(-inf) = 0; a row of -inf only is NaN (-inf - -inf).  The
\* common factor t^lo (lo the least finite exponent of the row) is cancelled
\* so that every exponent is >= 0; torch cancels exp(max) instead, the value
\* is the same real number.
Softmax(score) ==
    LET r == Len(score.shape)
        n == score.shape[r]
        at(i, k) == score.data[[i EXCEPT ![r] = k]]
        finite(i) == {k \in 1..n : ~at(i, k).ninf}
        lo(i) == CHOOSE m \in {at(i, k).e : k \in finite(i)} :
                    \A k \in finite(i) : m <= at(i, k).e
        ex(i, k) == IF at(i, k).ninf THEN <<>> ELSE Monomial(at(i, k).e - lo(i))
        den(i) == NumSumTo([k \in 1..n |-> [n |-> ex(i, k), d |-> <<1>>]], n).n
    IN  Tensor(score.shape,
               [i \in Idx(score.shape) |->
                  IF finite(i) = {} THEN NaN
                  ELSE [n |-> ex(i, i[r]), d |-> den(i)]])

\* The objects self_attention works on: its arguments (objects of the
\* caller), self.dim_K, its locals, and the exception it has raised, if any.
SA_Begin(Q, K, V, mask, dim_K) ==
    [Q |-> Q, K |-> K, V |-> V, mask |-> mask, dim_K |-> dim_K,
     K_T |-> None, score |-> None, Z |-> None, exc |-> None]

\* a statement's result v is bound to the local `name`, or is the
\* exception the statement raised; an exception ends the call, so a
\* statement after it does nothing
SA_Put(env, name, v) ==
    IF IsError(v) THEN [env EXCEPT !.exc = v] ELSE [env EXCEPT ![name] = v]

\* K_T = torch.transpose(K, -1, -2)
SA_Transpose(env) ==
    IF IsError(env.exc) THEN env ELSE [env EXCEPT !.K_T = Transpose(env.K)]

\* score = torch.matmul(Q, K_T)
SA_MatMul(env) ==
    IF IsError(env.exc) THEN env ELSE SA_Put(env, "score", MatMul(env.Q, env.K_T))

\* score /= torch.sqrt(self.dim_K): writes the object score and no other
SA_Scale(env) ==
    IF IsError(env.exc) THEN env
    ELSE [env EXCEPT !.score = Scale(env.score, env.dim_K)]

\* (mutant of SA_Mask: mask == 0 computed in place, in the caller's mask)
SA_MaskInPlace(env) ==
    IF IsError(env.exc) \/ IsNone(env.mask) THEN env
    ELSE SA_Put([env EXCEPT !.mask = EqZero(env.mask)], "score",
                MaskedFill(env.score, EqZero(env.mask), NegInf))

\* if mask is not None: score = torch.masked_fill(score, mask==0, -torch.inf)
SA_Mask(env) ==
    IF IsError(env.exc) \/ IsNone(env.mask) THEN env
    ELSE SA_Put(env, "score", MaskedFill(env.score, EqZero(env.mask), NegInf))

\* (mutant of SA_Softmax: the softmax taken over the query axis, dim=-2)
SA_SoftmaxOverQueries(env) ==
    IF IsError(env.exc) THEN env
    ELSE [env EXCEPT !.score = Transpose(Softmax(Transpose(env.score)))]

\* (mutant of SA_Softmax: NaN weights replaced by 0, as torch.nan_to_num does)
SA_SoftmaxNanToNum(env) ==
    IF IsError(env.exc) THEN env
    ELSE [env EXCEPT !.score =
            Tensor(env.score.shape,
                   [i \in Idx(env.score.shape) |->
                      IF IsNaN(Softmax(env.score).data[i]) THEN Zero
                      ELSE Softmax(env.score).data[i]])]

\* score = torch.softmax(score, dim=-1)
SA_Softmax(env) ==
    IF IsError(env.exc) THEN env ELSE [env EXCEPT !.score = Softmax(env.score)]

\* Z = torch.matmul(score, V)
SA_Aggregate(env) ==
    IF IsError(env.exc) THEN env ELSE SA_Put(env, "Z", MatMul(env.score, env.V))

\* the statements of self_attention in order
self_attention(Q, K, V, mask, dim_K) ==
    SA_Aggregate(SA_Softmax(SA_Mask(SA_Scale(SA_MatMul(SA_Transpose(
        SA_Begin(Q, K, V, mask, dim_K)))))))

\* ------------------------------------------------------------ construction

\* Parameter values: nn.Linear initialises weight and bias at random; the
\* model draws them from a family of integers in -1..1 indexed by a seed.
G(k) == (k % 3) - 1

\* nn.Linear(in_features, out_features, bias)
NewLinear(seed, in_features, out_features, has_bias) ==
    [in_features  |-> in_features,
     out_features |-> out_features,
     has_bias     |-> has_bias,
     weight |-> [o \in 1..out_features |->
                   [c \in 1..in_features |-> G(seed * o + c + (seed \div 3))]],
     bias   |-> [o \in 1..out_features |->
                   IF has_bias THEN G(seed + o * (1 + (seed \div 3))) ELSE 0]]

\* Attention.__init__
Attention(seed, word_size, embed_dim) ==
    [kind      |-> "Attention",
     embed_dim |-> embed_dim,
     dim_K     |-> embed_dim,
     query     |-> NewLinear(seed, word_size, embed_dim, TRUE),
     key       |-> NewLinear(seed + 1, word_size, embed_dim, TRUE),
     value     |-> NewLinear(seed + 2, word_size, embed_dim, TRUE)]

\* MultiheadAttention.__init__
MultiheadAttention(seed, word_size, embed_dim, n_head) ==
    [kind      |-> "MultiheadAttention",
     n_head    |-> n_head,
     embed_dim |-> embed_dim,
     dim_K     |-> embed_dim,
     proj      |-> NewLinear(seed, embed_dim * n_head, embed_dim, FALSE),
     multihead |-> [h \in 1..n_head |-> Attention(seed + 3 * h, word_size, embed_dim)]]

\* MultiQueryAttention.__init__: the inherited query is deleted
MultiQueryAttention(seed, word_size, embed_dim, n_query) ==
    [kind      |-> "MultiQueryAttention",
     embed_dim |-> embed_dim,
     dim_K     |-> embed_dim,
     n_query   |-> n_query,
     proj      |-> NewLinear(seed, embed_dim * n_query, embed_dim, FALSE),
     querys    |-> [q \in 1..n_query |-> NewLinear(seed + 3 * q, word_size, embed_dim, TRUE)],
     key       |-> NewLinear(seed + 1, word_size, embed_dim, TRUE),
     value     |-> NewLinear(seed + 2, word_size, embed_dim, TRUE)]

\* GroupedQueryAttention.__init__: the inherited query, key, value are deleted
GroupedQueryAttention(seed, word_size, embed_dim, n_grouped, n_query_each_group) ==
    [kind      |-> "GroupedQueryAttention",
     embed_dim |-> embed_dim,
     dim_K     |-> embed_dim,
     grouped   |-> [g \in 1..n_grouped |->
                      MultiQueryAttention(seed + 3 * g, word_size, embed_dim, n_query_each_group)],
     proj      |-> NewLinear(seed + 1, embed_dim * n_grouped, embed_dim, FALSE)]

\* ----------------------------------------------------------------- forward

\* the axis of torch.cat(..., dim=1) in the three compositions
CatDim == 1

\* what a call hands back: the value returned or the exception raised, and
\* the objects self and mask as the call leaves them
Outcome(ret, self, mask) == [ret |-> ret, self |-> self, mask |-> mask]

\* return Z, or the exception of self_attention
AttentionOutcome(self, env) ==
    Outcome(IF IsError(env.exc) THEN env.exc ELSE env.Z,
            [self EXCEPT !.dim_K = env.dim_K], env.mask)

\* Z = self.self_attention(Q, K, V, mask=mask), unless a projection raised
AttentionQKV(self, mask, Q, K, V) ==
    IF IsError(Q) THEN Outcome(Q, self, mask)
    ELSE IF IsError(K) THEN Outcome(K, self, mask)
    ELSE IF IsError(V) THEN Outcome(V, self, mask)
    ELSE AttentionOutcome(self, self_attention(Q, K, V, mask, self.dim_K))

\* Attention.forward
AttentionForward(self, x, mask) ==
    AttentionQKV(self, mask, Linear(self.query, x), Linear(self.key, x),
                 Linear(self.value, x))

\* the units a composition iterates over
Units(self) ==
    CASE self.kind = "MultiheadAttention"    -> Len(self.multihead)
      [] self.kind = "MultiQueryAttention"   -> Len(self.querys)
      [] self.kind = "GroupedQueryAttention" -> Len(self.grouped)

\* The locals of a composition's forward: K and V are those of
\* MultiQueryAttention.forward, outs is the list the comprehension builds,
\* Z_s the concatenation, ret the value returned or the exception raised.
Frame(self, x, mask, K, V) ==
    [self |-> self, x |-> x, mask |-> mask, K |-> K, V |-> V,
     outs |-> <<>>, Z_s |-> None,
     ret |-> IF IsError(K) THEN K ELSE IF IsError(V) THEN V ELSE None]

\* K = self.key(x); V = self.value(x) in MultiQueryAttention.forward
FwdBegin(self, x, mask) ==
    IF self.kind = "MultiQueryAttention"
    THEN Frame(self, x, mask, Linear(self.key, x), Linear(self.value, x))
    ELSE Frame(self, x, mask, None, None)

\* (mutant of Collect: the outputs are collected in reverse order)
CollectReversed(outs, z) == <<z>> \o outs

\* the list comprehension appends the outputs in iteration order
Collect(outs, z) == Append(outs, z)

\* head(x, mask) of unit i of the list `units` has ended with outcome r
TakeOutcome(f, units, i, r) ==
    IF IsError(r.ret)
    THEN [f EXCEPT !.self[units][i] = r.self, !.mask = r.mask, !.ret = r.ret]
    ELSE [f EXCEPT !.self[units][i] = r.self, !.mask = r.mask,
                   !.outs = Collect(f.outs, r.ret)]

\* self.self_attention(query(x), K, V, mask) has ended with the objects env
TakeEnv(f, env) ==
    IF IsError(env.exc)
    THEN [f EXCEPT !.K = env.K, !.V = env.V, !.mask = env.mask,
                   !.self.dim_K = env.dim_K, !.ret = env.exc]
    ELSE [f EXCEPT !.K = env.K, !.V = env.V, !.mask = env.mask,
                   !.self.dim_K = env.dim_K, !.outs = Collect(f.outs, env.Z)]

\* self.self_attention(query(x), K, V, mask) for the projected query q
QueryUnit(f, q) ==
    IF IsError(q) THEN [f EXCEPT !.ret = q]
    ELSE TakeEnv(f, self_attention(q, f.K, f.V, f.mask, f.self.dim_K))

RECURSIVE Forward(_, _, _)

\* one iteration of the comprehension: unit number Len(outs) + 1
FwdUnit(f) ==
    CASE f.self.kind = "MultiheadAttention" ->
           TakeOutcome(f, "multihead", Len(f.outs) + 1,
                       AttentionForward(f.self.multihead[Len(f.outs) + 1], f.x, f.mask))
      [] f.self.kind = "MultiQueryAttention" ->
           QueryUnit(f, Linear(f.self.querys[Len(f.outs) + 1], f.x))
      [] f.self.kind = "GroupedQueryAttention" ->
           TakeOutcome(f, "grouped", Len(f.outs) + 1,
                       Forward(f.self.grouped[Len(f.outs) + 1], f.x, f.mask))

\* a statement's result v is bound to the local `name`, or is the exception
PutLocal(f, name, v) ==
    IF IsError(v) THEN [f EXCEPT !.ret = v] ELSE [f EXCEPT ![name] = v]

\* Z_s = torch.cat([...], dim=1)
FwdCat(f) ==
    IF IsError(f.ret) THEN f ELSE PutLocal(f, "Z_s", Cat(f.outs, CatDim))

\* Z = self.proj(Z_s); return Z
FwdProj(f) ==
    IF IsError(f.ret) THEN f ELSE [f EXCEPT !.ret = Linear(f.self.proj, f.Z_s)]

RECURSIVE RunUnits(_)
\* the comprehension: unit after unit, until one raises
RunUnits(f) ==
    IF IsError(f.ret) \/ Len(f.outs) = Units(f.self) THEN f
    ELSE RunUnits(FwdUnit(f))

OutcomeOf(f) == Outcome(f.ret, f.self, f.mask)

\* forward of any component, as one call
Forward(self, x, mask) ==
    IF self.kind = "Attention" THEN AttentionForward(self, x, mask)
    ELSE OutcomeOf(FwdProj(FwdCat(RunUnits(FwdBegin(self, x, mask)))))

\* ------------------------------------------------------------------ inputs

\* integer tensors of a given shape, one per seed, entries in -1..1
GenTensor(seed, shape) ==
    Tensor(shape,
           [i \in Idx(shape) |->
              Num(G(seed + SumTo([k \in 1..Len(i) |->
                                    (IF k % 2 = 1 THEN 1 ELSE 2) * i[k]], Len(i))))])

Seeds == 0..MaxSeed
Batches == 1..MaxBatch
SeqLens == 1..MaxSeq

\* Masks of shape (Sq, Sk) that keep every pair but: key k for every query
\* (KeyOut), the keys from k on for every query (KeysFrom; all of them for
\* k = 1), every key for query r (RowOut), the one pair (r, k) (CellOut), the
\* keys after the query (Causal).
MaskOf(Sq, Sk, kept) ==
    Tensor(<<Sq, Sk>>, [i \in Idx(<<Sq, Sk>>) |-> i \in kept])
KeyOut(Sq, Sk, k) == MaskOf(Sq, Sk, {i \in Idx(<<Sq, Sk>>) : i[2] # k})
KeysFrom(Sq, Sk, k) == MaskOf(Sq, Sk, {i \in Idx(<<Sq, Sk>>) : i[2] < k})
RowOut(Sq, Sk, r) == MaskOf(Sq, Sk, {i \in Idx(<<Sq, Sk>>) : i[1] # r})
CellOut(Sq, Sk, r, k) == MaskOf(Sq, Sk, Idx(<<Sq, Sk>>) \ {<<r, k>>})
Causal(Sq, Sk) == MaskOf(Sq, Sk, {i \in Idx(<<Sq, Sk>>) : i[2] <= i[1]})
PatternMasks(Sq, Sk) ==
    {KeyOut(Sq, Sk, k) : k \in 1..Sk}
    \cup {KeysFrom(Sq, Sk, k) : k \in 1..Sk}
    \cup {RowOut(Sq, Sk, r) : r \in 1..Sq}
    \cup {CellOut(Sq, Sk, r, k) : r \in 1..Sq, k \in 1..Sk}
    \cup {Causal(Sq, Sk)}

\* Masks of rank 1..3 whose sizes are 1, the size of the score tensor at
\* that axis, or one more; the even key positions are excluded.
ShapedMask(shape) ==
    Tensor(shape, [i \in Idx(shape) |-> i[Len(shape)] % 2 = 1])
Sizes(n) == {1, n, n + 1}
MaskShapes(B, Sq, Sk) ==
    {<<c>> : c \in Sizes(Sk)}
    \cup {<<r, c>> : r \in Sizes(Sq), c \in Sizes(Sk)}
    \cup {<<b, r, c>> : b \in Sizes(B), r \in Sizes(Sq), c \in Sizes(Sk)}

\* masks handed to self_attention for a score tensor of shape (B, Sq, Sk)
PrimitiveMasks(B, Sq, Sk) ==
    {None} \cup PatternMasks(Sq, Sk)
           \cup {ShapedMask(sh) : sh \in MaskShapes(B, Sq, Sk)}

\* masks handed to forward for sequence length S: none, causal, the last key
\* excluded for every query (shape (1, S)), every key excluded, and one of
\* another size
LastKeyOut(S) == KeysFrom(1, S, S)
ForwardMasks(S) ==
    {None, Causal(S, S), LastKeyOut(S), KeysFrom(S, S, 1), ShapedMask(<<S + 1, S + 1>>)}

\* the components that can be constructed within the bounds
Modules ==
    {Attention(s, WordSize, EmbedDim) : s \in Seeds}
    \cup {MultiheadAttention(s, WordSize, EmbedDim, n) : s \in Seeds, n \in 1..MaxUnits}
    \cup {MultiQueryAttention(s, WordSize, EmbedDim, n) : s \in Seeds, n \in 1..MaxUnits}
    \cup {GroupedQueryAttention(s, WordSize, EmbedDim, g, m) :
             s \in Seeds, g \in 1..MaxUnits, m \in 1..MaxUnits}

\* ----------------------------------------------------------- state machine

VARIABLES
    module,   \* the component, as its calls leave it
    module0,  \* the component as constructed
    op,       \* the method running: "none", "forward", "self_attention"
    pc,       \* "idle", the statement to run next, "returned" or "raised"
    args,     \* the arguments of the running call as they were passed
    f,        \* the locals of the running forward
    env,      \* the locals of the running self_attention
    calls     \* the number of calls that have ended

vars == <<module, module0, op, pc, args, f, env, calls>>

Init ==
    /\ module \in Modules
    /\ module0 = module
    /\ op = "none"
    /\ pc = "idle"
    /\ args = None
    /\ f = None
    /\ env = None
    /\ calls = 0

\* the locals of Attention.forward when it has ended with outcome r
AttentionFrame(x, r) ==
    [self |-> r.self, x |-> x, mask |-> r.mask, K |-> None, V |-> None,
     outs |-> <<>>, Z_s |-> None, ret |-> r.ret]

\* Attention.forward(x, mask), the whole call
CallAttention ==
    /\ pc = "idle"
    /\ calls < MaxCalls
    /\ module.kind = "Attention"
    /\ \E s \in Seeds, B \in Batches, S \in SeqLens :
         \E mask \in ForwardMasks(S) :
            /\ args' = [x |-> GenTensor(s, <<B, S, WordSize>>), mask |-> mask]
            /\ f' = AttentionFrame(args'.x,
                                   AttentionForward(module, args'.x, mask))
    /\ module' = f'.self
    /\ pc' = IF IsError(f'.ret) THEN "raised" ELSE "returned"
    /\ op' = "forward"
    /\ UNCHANGED <<module0, env, calls>>

\* forward(x, mask) of a composition is entered
CallForward ==
    /\ pc = "idle"
    /\ calls < MaxCalls
    /\ module.kind # "Attention"
    /\ \E s \in Seeds, B \in Batches, S \in SeqLens :
         \E mask \in ForwardMasks(S) :
            /\ args' = [x |-> GenTensor(s, <<B, S, WordSize>>), mask |-> mask]
            /\ f' = FwdBegin(module, args'.x, mask)
    /\ module' = f'.self
    /\ pc' = IF IsError(f'.ret) THEN "raised" ELSE "units"
    /\ op' = "forward"
    /\ UNCHANGED <<module0, env, calls>>

\* the comprehension evaluates its next unit
StepUnit ==
    /\ pc = "units"
    /\ f' = FwdUnit(f)
    /\ module' = f'.self
    /\ pc' = IF IsError(f'.ret) THEN "raised"
             ELSE IF Len(f'.outs) = Units(f'.self) THEN "cat" ELSE "units"
    /\ UNCHANGED <<module0, op, args, env, calls>>

StepCat ==
    /\ pc = "cat"
    /\ f' = FwdCat(f)
    /\ pc' = IF IsError(f'.ret) THEN "raised" ELSE "proj"
    /\ UNCHANGED <<module, module0, op, args, env, calls>>

StepProj ==
    /\ pc = "proj"
    /\ f' = FwdProj(f)
    /\ pc' = IF IsError(f'.ret) THEN "raised" ELSE "returned"
    /\ UNCHANGED <<module, module0, op, args, env, calls>>

\* self_attention(Q, K, V, mask) is entered on a single-head component
CallSelfAttention ==
    /\ pc = "idle"
    /\ calls < MaxCalls
    /\ module.kind = "Attention"
    /\ \E s \in Seeds, B \in Batches, Sq \in SeqLens, Sk \in SeqLens :
         \E mask \in PrimitiveMasks(B, Sq, Sk) :
            /\ args' = [Q |-> GenTensor(s, <<B, Sq, module.embed_dim>>),
                        K |-> GenTensor(s + 1, <<B, Sk, module.embed_dim>>),
                        V |-> GenTensor(s + 2, <<B, Sk, module.embed_dim>>),
                        mask |-> mask]
            /\ env' = SA_Begin(args'.Q, args'.K, args'.V, mask, module.dim_K)
    /\ pc' = "transpose"
    /\ op' = "self_attention"
    /\ UNCHANGED <<module, module0, f, calls>>

\* K_T = torch.transpose(K, -1, -2)
StepTranspose ==
    /\ op = "self_attention"
    /\ pc = "transpose"
    /\ env' = SA_Transpose(env)
    /\ module' = [module EXCEPT !.dim_K = env'.dim_K]
    /\ pc' = "matmul"
    /\ UNCHANGED <<module0, op, args, f, calls>>

\* score = torch.matmul(Q, K_T)
StepMatMul ==
    /\ op = "self_attention"
    /\ pc = "matmul"
    /\ env' = SA_MatMul(env)
    /\ module' = [module EXCEPT !.dim_K = env'.dim_K]
    /\ pc' = IF IsError(env'.exc) THEN "raised" ELSE "scale"
    /\ UNCHANGED <<module0, op, args, f, calls>>

\* score /= torch.sqrt(self.dim_K)
StepScale ==
    /\ op = "self_attention"
    /\ pc = "scale"
    /\ env' = SA_Scale(env)
    /\ module' = [module EXCEPT !.dim_K = env'.dim_K]
    /\ pc' = "mask"
    /\ UNCHANGED <<module0, op, args, f, calls>>

\* if mask is not None: score = torch.masked_fill(score, mask==0, -torch.inf)
StepMask ==
    /\ op = "self_attention"
    /\ pc = "mask"
    /\ env' = SA_Mask(env)
    /\ module' = [module EXCEPT !.dim_K = env'.dim_K]
    /\ pc' = IF IsError(env'.exc) THEN "raised" ELSE "softmax"
    /\ UNCHANGED <<module0, op, args, f, calls>>

\* score = torch.softmax(score, dim=-1)
StepSoftmax ==
    /\ op = "self_attention"
    /\ pc = "softmax"
    /\ env' = SA_Softmax(env)
    /\ module' = [module EXCEPT !.dim_K = env'.dim_K]
    /\ pc' = "aggregate"
    /\ UNCHANGED <<module0, op, args, f, calls>>

\* Z = torch.matmul(score, V); return Z
StepAggregate ==
    /\ op = "self_attention"
    /\ pc = "aggregate"
    /\ env' = SA_Aggregate(env)
    /\ module' = [module EXCEPT !.dim_K = env'.dim_K]
    /\ pc' = IF IsError(env'.exc) THEN "raised" ELSE "returned"
    /\ UNCHANGED <<module0, op, args, f, calls>>

\* the call ends: the caller has the value or the exception
Return ==
    /\ pc \in {"returned", "raised"}
    /\ pc' = "idle"
    /\ op' = "none"
    /\ args' = None
    /\ f' = None
    /\ env' = None
    /\ calls' = calls + 1
    /\ UNCHANGED <<module, module0>>

Next ==
    \/ CallAttention
    \/ CallForward
    \/ StepUnit
    \/ StepCat
    \/ StepProj
    \/ CallSelfAttention
    \/ StepTranspose
    \/ StepMatMul
    \/ StepScale
    \/ StepMask
    \/ StepSoftmax
    \/ StepAggregate
    \/ Return

Spec == Init /\ [][Next]_vars

\* ------------------------------------------------- notions the claims use

\* equality of two tensors as values: the same shape, every entry the same
\* real number
TensorEq(A, B) ==
    /\ A.shape = B.shape
    /\ \A i \in Idx(A.shape) : NumEq(A.data[i], B.data[i])

\* the same shape and entrywise the same number or both NaN
TensorSame(A, B) ==
    /\ A.shape = B.shape
    /\ \A i \in Idx(A.shape) : NumSame(A.data[i], B.data[i])

\* two calls end alike: with the same tensor, or with the same exception
SameOutcome(a, b) ==
    IF IsTensor(a) /\ IsTensor(b) THEN TensorSame(a, b) ELSE a = b

\* the k-th size of a shape counted from its trailing axis
Rev(shape, k) == shape[Len(shape) + 1 - k]

\* the two shapes have sizes at some aligned axis that differ, neither being 1
Incompatible(ms, ss) ==
    \E k \in 1..Min2(Len(ms), Len(ss)) :
        Rev(ms, k) # Rev(ss, k) /\ Rev(ms, k) # 1 /\ Rev(ss, k) # 1

\* a tensor of shape ms can be expanded to the shape ss
BroadcastableTo(ms, ss) ==
    /\ Len(ms) <= Len(ss)
    /\ \A k \in 1..Len(ms) : Rev(ms, k) \in {1, Rev(ss, k)}

\* whether the mask keeps (is true at) the pair that the score index i names
Keeps(mask, i) ==
    mask.data[[j \in 1..Len(mask.shape) |->
                 IF mask.shape[j] = 1 THEN 1 ELSE i[j + Len(i) - Len(mask.shape)]]]

\* the key positions the mask keeps for the query of score index i
RowKept(mask, i, n) == {k \in 1..n : Keeps(mask, [i EXCEPT ![Len(i)] = k])}

\* the shapes of the running forward call
FwdB == args.x.shape[1]
FwdS == args.x.shape[2]
FwdRunning == op = "forward" /\ module0.kind # "Attention"
FwdEnded == pc \in {"returned", "raised"}
ValidMask == IsNone(args.mask) \/ BroadcastableTo(args.mask.shape, <<FwdB, FwdS, FwdS>>)

\* -------------------------------------------------------------------- C1
\* C1: for each composition and every unit count N >= 1, forward on an
\* input of shape (B, S, word_size) concatenates the N per-unit outputs
\* along the channel axis into a tensor of shape (B, S, embed_dim*N), and
\* the output projection then yields a tensor of shape (B, S, embed_dim).
\* The code concatenates with dim=1, the sequence axis: for N >= 2 the
\* concatenation is (B, S*N, embed_dim) and the projection raises.
C1_ConcatThenProjectShapes ==
    (FwdRunning /\ ValidMask) =>
        /\ pc # "raised"
        /\ ~IsNone(f.Z_s) =>
              f.Z_s.shape = <<FwdB, FwdS, module0.embed_dim * Units(module0)>>
        /\ pc = "returned" => f.ret.shape = <<FwdB, FwdS, module0.embed_dim>>

\* -------------------------------------------------------------------- C2
\* C2: GroupedQueryAttention with n_grouped = 1 and n_query_each_group =
\* n_query produces from forward(x, mask) exactly the output of a standalone
\* MultiQueryAttention with the same n_query whose parameters are those of
\* the single group.
\* The code applies the GroupedQueryAttention's own self.proj to the
\* one group's output, so the two differ already for n_query = 1.
C2_OneGroupEqualsMultiQuery ==
    (FwdEnded /\ op = "forward" /\ module0.kind = "GroupedQueryAttention"
              /\ Len(module0.grouped) = 1) =>
        SameOutcome(f.ret, Forward(module0.grouped[1], args.x, args.mask).ret)

\* -------------------------------------------------------------------- C5
\* the component with its query projections i and j exchanged
SwapQueries(self, i, j) ==
    [self EXCEPT !.querys[i] = self.querys[j], !.querys[j] = self.querys[i]]

\* the component with the slices of the output-projection weight that
\* consume units i and j exchanged
SwapProjSlices(self, i, j) ==
    LET E == self.embed_dim
        src(c) == IF (i - 1) * E < c /\ c <= i * E THEN c + (j - i) * E
                  ELSE IF (j - 1) * E < c /\ c <= j * E THEN c - (j - i) * E
                  ELSE c
    IN  [self EXCEPT !.proj.weight =
            [o \in 1..self.proj.out_features |->
               [c \in 1..self.proj.in_features |-> self.proj.weight[o][src(c)]]]]

\* C5: in MultiQueryAttention.forward with n_query >= 2 the output depends
\* on the declaration order of the query projections, and exchanging two
\* query projections together with the output-projection weight slices that
\* consume them leaves the output unchanged.
\* In the code no output exists for n_query >= 2: the concatenation along
\* dim=1 is embed_dim wide and self.proj raises (see C1).
C5_CompensatedSwapKeepsOutput ==
    (FwdEnded /\ op = "forward" /\ module0.kind = "MultiQueryAttention"
              /\ Len(module0.querys) >= 2 /\ ValidMask) =>
        /\ IsTensor(f.ret)
        /\ SameOutcome(f.ret,
              Forward(SwapProjSlices(SwapQueries(module0, 1, 2), 1, 2),
                      args.x, args.mask).ret)

\* -------------------------------------------------------------------- C6
\* what unit u of the component computes from x and mask, on its own
UnitOutput(self, u, x, mask) ==
    CASE self.kind = "MultiheadAttention" ->
           AttentionForward(self.multihead[u], x, mask).ret
      [] self.kind = "MultiQueryAttention" ->
           self_attention(Linear(self.querys[u], x), Linear(self.key, x),
                          Linear(self.value, x), mask, self.dim_K).Z
      [] self.kind = "GroupedQueryAttention" ->
           Forward(self.grouped[u], x, mask).ret

\* the u-th block of n positions of T along the concatenation axis
Block(T, u, n) ==
    LET sh == [T.shape EXCEPT ![CatDim + 1] = n]
    IN  Tensor(sh, [i \in Idx(sh) |->
                      T.data[[i EXCEPT ![CatDim + 1] = (u - 1) * n + i[CatDim + 1]]]])

\* C6: within one forward call of a composition the per-unit outputs are
\* concatenated in the declared order: the list holds the output of unit u
\* at place u, and the u-th slice of the tensor handed to the output
\* projection (along the concatenation axis, dim=1) is the output of unit u.
C6_DeclaredOrder ==
    FwdRunning =>
        /\ \A u \in 1..Len(f.outs) :
              f.outs[u] = UnitOutput(module0, u, args.x, args.mask)
        /\ ~IsNone(f.Z_s) =>
              /\ Len(f.outs) = Units(module0)
              /\ \A u \in 1..Units(module0) :
                    Block(f.Z_s, u, f.outs[u].shape[CatDim + 1]) = f.outs[u]

\* a composition of at least two units whose outputs differ has been
\* concatenated
C6_Witness ==
    /\ FwdRunning
    /\ pc = "proj"
    /\ Units(module0) >= 2
    /\ f.outs[1] # f.outs[2]

\* -------------------------------------------------------------------- C8
\* C8: every forward call leaves the component (its parameters and its set
\* of attributes), the input tensor and the mask as they were, so that after
\* any sequence of calls a call returns what the same call returns on the
\* component as constructed.
C8_ForwardIsPure ==
    /\ module = module0
    /\ op = "forward" =>
          /\ f.self = module0
          /\ f.x = args.x
          /\ f.mask = args.mask
          /\ FwdEnded => f.ret = Forward(module0, args.x, args.mask).ret
    /\ op = "self_attention" =>
          /\ env.Q = args.Q
          /\ env.K = args.K
          /\ env.V = args.V
          /\ env.mask = args.mask
          /\ env.dim_K = module0.dim_K

\* a call with a mask has returned a tensor after an earlier call
C8_Witness ==
    /\ calls >= 1
    /\ op = "forward"
    /\ pc = "returned"
    /\ ~IsNone(args.mask)
    /\ IsTensor(f.ret)

\* ------------------------------------------- the primitive, claims C3-C10

\* the shape (B, Sq, Sk) of the score tensor of the running self_attention
ScoreShape == <<args.Q.shape[1], args.Q.shape[2], args.K.shape[2]>>
HasMask == op = "self_attention" /\ ~IsNone(args.mask)
AfterSoftmax == op = "self_attention" /\ pc \in {"aggregate", "returned"}

\* the normalized score at index i, the entries of its row, their sum
Weight(i) == env.score.data[i]
KeyCount == env.score.shape[Len(env.score.shape)]
RowSum(i) ==
    NumSumTo([k \in 1..KeyCount |-> Weight([i EXCEPT ![Len(i)] = k])], KeyCount)
IsDistribution(i) ==
    /\ \A k \in 1..KeyCount : IsNonNeg(Weight([i EXCEPT ![Len(i)] = k]))
    /\ NumEq(RowSum(i), One)

\* the raw scores Q . K^T of the running call
RawScore(i) == IntOf(MatMul(args.Q, Transpose(args.K)).data[i])

\* -------------------------------------------------------------------- C3
\* C3: in self_attention, for every mask and every query position whose row
\* is not fully masked, every key position where the mask is false/zero has
\* post-softmax weight exactly zero, whatever the other scores are.
C3_MaskedWeightIsZero ==
    (AfterSoftmax /\ HasMask) =>
        \A i \in Idx(env.score.shape) :
            (~Keeps(args.mask, i) /\ RowKept(args.mask, i, KeyCount) # {})
                => IsZero(Weight(i))

\* a masked pair whose raw score is the largest of its row has weight zero
C3_Witness ==
    /\ AfterSoftmax
    /\ HasMask
    /\ BroadcastableTo(args.mask.shape, ScoreShape)
    /\ \E i \in Idx(ScoreShape) :
          /\ ~Keeps(args.mask, i)
          /\ RowKept(args.mask, i, KeyCount) # {}
          /\ \A k \in RowKept(args.mask, i, KeyCount) :
                RawScore(i) > RawScore([i EXCEPT ![3] = k])
          /\ IsZero(Weight(i))

\* -------------------------------------------------------------------- C7
\* the least and the greatest entry of channel c of the Value rows of batch b
ValueMin(b, c) ==
    CHOOSE m \in {IntOf(args.V.data[<<b, k, c>>]) : k \in 1..args.V.shape[2]} :
        \A k \in 1..args.V.shape[2] : m <= IntOf(args.V.data[<<b, k, c>>])
ValueMax(b, c) ==
    CHOOSE m \in {IntOf(args.V.data[<<b, k, c>>]) : k \in 1..args.V.shape[2]} :
        \A k \in 1..args.V.shape[2] : m >= IntOf(args.V.data[<<b, k, c>>])

\* C7: without a mask every row of the normalized score tensor has weights
\* >= 0 that sum to 1, so that each output row is a convex combination of
\* the Value rows (every output entry lies between the least and the
\* greatest entry of its channel).
C7_RowsAreDistributions ==
    (AfterSoftmax /\ IsNone(args.mask)) =>
        /\ env.score.shape = ScoreShape
        /\ \A i \in Idx(ScoreShape) : IsDistribution(i)
        /\ pc = "returned" =>
              \A i \in Idx(env.Z.shape) :
                  /\ IsNonNeg(NumAdd(env.Z.data[i], Num(-ValueMin(i[1], i[3]))))
                  /\ IsNonNeg(NumAdd(Num(ValueMax(i[1], i[3])),
                                     NumMul(Num(-1), env.Z.data[i])))

\* a call without mask has returned, with a row of two unequal weights
C7_Witness ==
    /\ AfterSoftmax
    /\ pc = "returned"
    /\ IsNone(args.mask)
    /\ \E i \in Idx(ScoreShape), k \in 1..KeyCount :
          ~NumEq(Weight(i), Weight([i EXCEPT ![3] = k]))

FullyMasked(i) == RowKept(args.mask, i, ScoreShape[3]) = {}

\* C10: when a mask excludes every key position for a query, self_attention
\* raises no error; the normalized score row of that query is NaN and so is
\* its output row, while the rows of the queries that are not fully masked
\* are distributions.
C10_FullyMaskedRowIsNaN ==
    (HasMask /\ BroadcastableTo(args.mask.shape, ScoreShape)) =>
        /\ pc # "raised"
        /\ AfterSoftmax =>
              \A i \in Idx(ScoreShape) :
                  IF FullyMasked(i)
                  THEN /\ IsNaN(Weight(i))
                       /\ pc = "returned" =>
                             \A c \in 1..env.Z.shape[Len(env.Z.shape)] :
                                 IsNaN(env.Z.data[[i EXCEPT ![Len(i)] = c]])
                  ELSE IsDistribution(i)

\* a call has returned with one query fully masked and another not
C10_Witness ==
    /\ HasMask
    /\ BroadcastableTo(args.mask.shape, ScoreShape)
    /\ pc = "returned"
    /\ \E i \in Idx(ScoreShape) : FullyMasked(i) /\ IsNaN(env.Z.data[<<i[1], i[2], 1>>])
    /\ \E i \in Idx(ScoreShape) : ~FullyMasked(i)

\* -------------------------------------------------------------------- C4
\* the mask is the same for every batch element and every query
ColumnMask ==
    /\ BroadcastableTo(args.mask.shape, ScoreShape)
    /\ \A i \in Idx(ScoreShape) :
          Keeps(args.mask, i) = Keeps(args.mask, <<1, 1, i[3]>>)
KeptKeys == {k \in 1..ScoreShape[3] : Keeps(args.mask, <<1, 1, k>>)}

\* the elements of a set of integers in increasing order
Ordered(S) ==
    CHOOSE q \in [1..Cardinality(S) -> S] :
        \A a \in 1..Cardinality(S), b \in 1..Cardinality(S) : a < b => q[a] < q[b]

\* the tensor (B, S, C) restricted to the sequence positions ks, in order
Select(T, ks) ==
    Tensor(<<T.shape[1], Len(ks), T.shape[3]>>,
           [i \in Idx(<<T.shape[1], Len(ks), T.shape[3]>>) |->
              T.data[<<i[1], ks[i[2]], i[3]>>]])

\* C4: when a mask excludes the same key positions for every query, the
\* output for every query equals the output of the same computation with
\* the excluded key/value positions removed; with the last position of the
\* sequence excluded, Attention.forward gives for the other positions what
\* it gives on the sequence truncated to them.
C4_MaskedKeysContributeNothing ==
    /\ (HasMask /\ pc = "returned" /\ ColumnMask /\ KeptKeys # {}) =>
          TensorEq(env.Z,
                   self_attention(args.Q, Select(args.K, Ordered(KeptKeys)),
                                  Select(args.V, Ordered(KeptKeys)), None,
                                  module0.dim_K).Z)
    /\ (op = "forward" /\ module0.kind = "Attention" /\ pc = "returned"
          /\ args.x.shape[2] >= 2 /\ args.mask = LastKeyOut(args.x.shape[2])) =>
          TensorEq(Select(f.ret, Ordered(1..(args.x.shape[2] - 1))),
                   AttentionForward(module0,
                       Select(args.x, Ordered(1..(args.x.shape[2] - 1))), None).ret)

\* a call has returned whose mask excludes a key for every query, and the
\* output is not the one the call gives without the mask
C4_Witness ==
    /\ HasMask
    /\ pc = "returned"
    /\ ColumnMask
    /\ KeptKeys # {}
    /\ KeptKeys # 1..ScoreShape[3]
    /\ ~TensorEq(env.Z, self_attention(args.Q, args.K, args.V, None, module0.dim_K).Z)

====
